---- MODULE Spec2Model ----
(***************************************************************************)
(* A model of the QuantAi alerting scripts:                                *)
(*   - monitor.py: the SEC Form-4 insider monitor (check_sec_filings,      *)
(*     get_transaction_details, get_xml_link, send_telegram_msg);          *)
(*   - news_watchdog.py: the history file of the news watchdog             *)
(*     (load_history, save_history, main).                                 *)
(*                                                                         *)
(* Three specifications share the variables:                               *)
(*   Spec          runs of check_sec_filings against a feed;               *)
(*   SpecClassify  get_transaction_details applied to one document;        *)
(*   SpecWatchdog  runs of news_watchdog.main against its history file.    *)
(*                                                                         *)
(* Share counts and prices are floats in the source; the model draws them  *)
(* from small sets of naturals, on which float arithmetic is exact.        *)
(***************************************************************************)
EXTENDS Integers, Sequences, FiniteSets

VARIABLES
    \* ---- monitor.py: check_sec_filings ----
    feed,         \* the entries the SEC Atom feed serves, in feed order
    filings,      \* per link: the index page rows and transaction document SEC serves
    now_utc,      \* check_sec_filings' now_utc, read once per run
    creds,        \* TELEGRAM_TOKEN and CHAT_ID are both set (read at import)
    telegram,     \* what requests.post to the Telegram API does: "ok" | "raises"
    pc,           \* "idle" | "scan" | "match" | "done" | "exit1"
    idx,          \* position of the outer loop in the feed (1-based)
    tpos,         \* position of the inner loop in WATCHLIST (1-based)
    found_count,  \* check_sec_filings' found_count
    runs,         \* runs of check_sec_filings started so far
    last,         \* the latest call of get_transaction_details and what followed
    resolved,     \* the links this run handed to get_transaction_details, in order
    notified,     \* the links this run handed to send_telegram_msg, in order
    processed,    \* the spec's ProcessedSet: the candidates of the runs completed
    rerun,        \* this run was started right after a run that completed its scan
    fetch,        \* what the feed request of this run met: "none" before the first run
    \* ---- get_transaction_details on one document ----
    cl_in,        \* the filing handed to get_transaction_details
    cl_out,       \* its return value
    cl_xml,       \* its xml_url (line 73): what get_xml_link returned, "" for None
    cl_pc,        \* "ready" | "returned"
    \* ---- news_watchdog.py ----
    w_file,       \* news_history.json
    w_history,    \* main's history set
    w_new,        \* links main added to history in the current run
    w_pc,         \* "idle" | "loop" | "saved"
    w_ticker,     \* position of main's loop in its WATCHLIST
    w_runs        \* runs of main started so far

mvars == <<feed, filings, now_utc, creds, telegram, pc, idx, tpos, found_count,
           runs, last, resolved, notified, processed, rerun, fetch>>
cvars == <<cl_in, cl_out, cl_xml, cl_pc>>
wvars == <<w_file, w_history, w_new, w_pc, w_ticker, w_runs>>
vars == <<mvars, cvars, wvars>>

----------------------------------------------------------------------------
(* Bounds of the model.                                                    *)

MaxEntries == 2      \* entries on the feed page
MaxRuns == 2         \* runs of check_sec_filings
MaxRecords == 2      \* nonDerivativeTransaction records in a document (SpecClassify)
MaxRows == 2         \* <tr> rows of an index page (SpecClassify)
MaxLinks == 3        \* distinct news links the two news sources serve (SpecWatchdog)
MaxWRuns == 2        \* runs of news_watchdog.main

----------------------------------------------------------------------------
(* monitor.py: configuration.                                               *)

\* WATCHLIST's tickers in dict (insertion) order.
WATCHLIST == <<"ZETA", "ODD", "HIMS", "OSCR">>

LOOKBACK_MINUTES == 1440

\* timedelta(minutes=LOOKBACK_MINUTES), in seconds.
LookbackSeconds == LOOKBACK_MINUTES * 60

----------------------------------------------------------------------------
(* monitor.py: get_xml_link.                                                *)

\* An index page is the sequence of its <tr> rows; a row is
\*   [cells: number of <td>, doctype: text of the Type cell,
\*    href: the href of the <a> in cells[2] ("" when there is no <a>),
\*    ext: the href's extension].
\* The first row with more than 3 cells whose cells[2] link ends in .xml.
RECURSIVE FirstXmlRow(_, _)
FirstXmlRow(rows, i) ==
    IF i > Len(rows) THEN 0
    ELSE IF rows[i].cells > 3 /\ rows[i].href # "" /\ rows[i].ext = "xml" THEN i
    ELSE FirstXmlRow(rows, i + 1)

\* page.fetch = "raises" is requests.get raising (timeout, connection error).
\* The result is "" for None, else the href joined to https://www.sec.gov.
get_xml_link(page) ==
    IF page.fetch = "raises" THEN ""
    ELSE LET i == FirstXmlRow(page.rows, 1)
         IN IF i = 0 THEN "" ELSE page.rows[i].href

----------------------------------------------------------------------------
(* monitor.py: get_transaction_details.                                     *)

\* The four fixed summaries, without their leading emoji.
MSG_XML_NOT_FOUND == "Could not auto-parse (XML not found). Please check link manually."
MSG_NO_NON_DERIVATIVE == "No Non-Derivative Transactions (Possibly Options/Grants only)"
MSG_MANUAL_CHECK == "Manual Check Required (Complex Transaction)"
MSG_PARSING_ERROR == "Parsing Error"

\* A summary is [text, lines]: one of the fixed messages, or the rendered
\* BUY / SELL lines (text = "").
FixedSummary(msg) == [text |-> msg, lines |-> <<>>]

\* A transaction record is
\*   [coding:  "text" | "absent" | "nochild"   (the transactionCoding element),
\*    code:    the text of its transactionCode,
\*    sharesNode: "value" | "absent" | "novalue", shares,
\*    priceNode:  "value" | "absent" | "novalue" | "nonnumeric", price].
\* Lines 96-103: the code read from a record. Form 4 documents carry the code as
\* element text, so the attribute read of line 97 yields None.
TransactionCode(t) ==
    IF t.coding = "absent" THEN [raised |-> FALSE, code |-> ""]
    ELSE IF t.coding = "nochild" THEN [raised |-> TRUE, code |-> ""]
    ELSE [raised |-> FALSE, code |-> t.code]

\* Lines 94-126: one iteration of the loop over the records; acc holds
\* total_buy_val, total_sell_val, shares_bought, shares_sold.
AccumulateMutSharesFirst(acc, t) ==
    LET c == TransactionCode(t)
        shares_val == IF t.sharesNode = "absent" THEN 0 ELSE t.shares
        price_val == IF t.priceNode = "value" THEN t.price ELSE 0
        counted == IF c.code = "P" THEN [acc EXCEPT !.shares_bought = @ + shares_val]
                   ELSE IF c.code = "S" THEN [acc EXCEPT !.shares_sold = @ + shares_val]
                   ELSE acc
    IN  IF c.raised THEN acc
        ELSE IF c.code = "" THEN acc
        ELSE IF t.sharesNode = "novalue" THEN acc
        ELSE IF t.priceNode = "nonnumeric" THEN counted    \* the shares are kept
        ELSE IF price_val = 0 THEN acc
        ELSE IF c.code = "P"
             THEN [counted EXCEPT !.total_buy_val = @ + shares_val * price_val]
        ELSE IF c.code = "S"
             THEN [counted EXCEPT !.total_sell_val = @ + shares_val * price_val]
        ELSE acc

Accumulate(acc, t) ==
    LET c == TransactionCode(t)
        shares_val == IF t.sharesNode = "absent" THEN 0 ELSE t.shares
        price_val == IF t.priceNode = "value" THEN t.price ELSE 0
    IN  IF c.raised THEN acc                          \* line 101 raises: except, continue
        ELSE IF c.code = "" THEN acc                  \* line 103
        ELSE IF t.sharesNode = "novalue" THEN acc     \* line 107 raises
        ELSE IF t.priceNode = "nonnumeric" THEN acc   \* line 113 raises
        ELSE IF price_val = 0 THEN acc                \* line 116
        ELSE IF c.code = "P"
             THEN [acc EXCEPT !.shares_bought = @ + shares_val,
                              !.total_buy_val = @ + shares_val * price_val]
        ELSE IF c.code = "S"
             THEN [acc EXCEPT !.shares_sold = @ + shares_val,
                              !.total_sell_val = @ + shares_val * price_val]
        ELSE acc

ZeroTotals == [total_buy_val |-> 0, total_sell_val |-> 0,
               shares_bought |-> 0, shares_sold |-> 0]

\* Lines 88-126: the loop over xml_data.
RECURSIVE Totals(_, _, _)
Totals(acc, xml_data, i) ==
    IF i > Len(xml_data) THEN acc
    ELSE Totals(Accumulate(acc, xml_data[i]), xml_data, i + 1)

\* Lines 128-138: signal_type from the two dollar totals.
SignalTypeMutSellWins(acc) ==
    IF acc.total_sell_val > 0 THEN "SELL"
    ELSE IF acc.total_buy_val > 0 THEN "BUY"
    ELSE "NEUTRAL"

SignalType(acc) ==
    LET s1 == IF acc.total_buy_val > 0 THEN "BUY" ELSE "NEUTRAL"
    IN  IF acc.total_sell_val > 0
        THEN (IF s1 = "BUY" THEN "MIXED" ELSE "SELL")
        ELSE s1

\* Lines 128-141: the summary: a line per side with a positive total, or the
\* manual-check text when there is none.
Summary(acc) ==
    LET buy == IF acc.total_buy_val > 0
               THEN <<[side |-> "BUY", shares |-> acc.shares_bought,
                       value |-> acc.total_buy_val]>>
               ELSE <<>>
        sell == IF acc.total_sell_val > 0
                THEN <<[side |-> "SELL", shares |-> acc.shares_sold,
                        value |-> acc.total_sell_val]>>
                ELSE <<>>
    IN  IF buy \o sell = <<>> THEN FixedSummary(MSG_MANUAL_CHECK)
        ELSE [text |-> "", lines |-> buy \o sell]

\* What one call meets on the network:
\*   [page: [fetch, rows], docFetch: "ok" | "raises" | "http_error", doc: records].
\* A non-200 answer is not looked at (no status check at line 80): its body
\* holds no nonDerivativeTransaction element.
get_transaction_details(f) ==
    IF get_xml_link(f.page) = ""
    THEN [summary |-> FixedSummary(MSG_XML_NOT_FOUND), signal |-> "UNKNOWN"]
    ELSE IF f.docFetch = "raises"
    THEN [summary |-> FixedSummary(MSG_PARSING_ERROR), signal |-> "ERROR"]
    ELSE LET xml_data == IF f.docFetch = "http_error" THEN <<>> ELSE f.doc
         IN  IF xml_data = <<>>
             THEN [summary |-> FixedSummary(MSG_NO_NON_DERIVATIVE), signal |-> "NEUTRAL"]
             ELSE LET acc == Totals(ZeroTotals, xml_data, 1)
                  IN  [summary |-> Summary(acc), signal |-> SignalType(acc)]

----------------------------------------------------------------------------
(* monitor.py: send_telegram_msg.                                           *)

\* post is what requests.post does: "ok" or "raises" (caught at line 43).
\* Nothing is returned and nothing is raised; the result names what happened
\* ("raised": an exception leaves the function, which the code never does).
send_telegram_msgMutNoCatch(has_creds, post) ==
    IF ~has_creds THEN "no_credentials"
    ELSE IF post = "raises" THEN "raised"
    ELSE "posted"

send_telegram_msg(has_creds, post) ==
    IF ~has_creds THEN "no_credentials"
    ELSE IF post = "raises" THEN "post_failed"
    ELSE "posted"

----------------------------------------------------------------------------
(* monitor.py: check_sec_filings.                                           *)

\* The clock when the model starts.
T0 == LookbackSeconds + 1

\* Entry i of the feed page has link i.
Links == 1 .. MaxEntries

\* The updated times the feed's entries are drawn from: one second outside the
\* window at T0, exactly on its edge, and fresh.
Old == T0 - LookbackSeconds - 1
Edge == T0 - LookbackSeconds
Times == {Old, Edge, T0}

\* A title is modelled by the set of WATCHLIST tickers whose company name it
\* contains (line 192: company_name.lower() in title.lower()).
Titles == {{}, {"ZETA"}, {"ODD", "HIMS"}}

\* form names the field the <entry> lacks, "ok" when it has all three. The
\* entries with all three: one title at each time, each title when fresh.
Entries(l) ==
    {e \in [form : {"ok"}, link : {l}, updated : Times, title : Titles] :
        e.updated = T0 \/ e.title = {"ZETA"}}
    \cup [form : {"no_title", "no_link", "no_updated"}, link : {l},
          updated : {T0}, title : {{}}]

RECURSIVE FeedsOfLen(_)
FeedsOfLen(n) ==
    IF n = 0 THEN {<<>>}
    ELSE {Append(fd, e) : fd \in FeedsOfLen(n - 1), e \in Entries(n)}

Feeds == UNION {FeedsOfLen(n) : n \in 0 .. MaxEntries}

\* Transaction records and documents the filings of the feed are drawn from.
Rec(code, shares, price) ==
    [coding |-> "text", code |-> code, sharesNode |-> "value", shares |-> shares,
     priceNode |-> "value", price |-> price]

PipelineDocs ==
    {<<>>, <<Rec("A", 1000, 10)>>, <<Rec("P", 1000, 10), Rec("S", 500, 20)>>}

HtmRow == [cells |-> 4, doctype |-> "4", href |-> "form4.htm", ext |-> "htm"]
XmlRow == [cells |-> 4, doctype |-> "4", href |-> "form4.xml", ext |-> "xml"]

\* What SEC serves for a filing: the rows of its index page (without or with a
\* transaction-document row) and the document.
NoXmlFiling == [rows |-> <<HtmRow>>, doc |-> <<>>]

PipelineFilings ==
    {NoXmlFiling} \cup {[rows |-> <<HtmRow, XmlRow>>, doc |-> d] : d \in PipelineDocs}

\* Line 187: the time filter; TRUE when the entry is dropped.
TooOldMutInclusive(updated_time, now_) == now_ - updated_time >= LookbackSeconds

TooOld(updated_time, now_) == now_ - updated_time > LookbackSeconds

\* Lines 191-192: the first position >= t of WATCHLIST whose company name the
\* title contains, 0 when there is none.
RECURSIVE NextMatch(_, _)
NextMatch(title, t) ==
    IF t > Len(WATCHLIST) THEN 0
    ELSE IF WATCHLIST[t] \in title THEN t
    ELSE NextMatch(title, t + 1)

\* Line 198: the filter before sending.
SuppressedMutUnknown(r) ==
    r.signal \in {"NEUTRAL", "UNKNOWN"} /\ r.summary.text # MSG_MANUAL_CHECK

\* "Manual Check" is a substring of MSG_MANUAL_CHECK alone among the summaries.
Suppressed(r) == r.signal = "NEUTRAL" /\ r.summary.text # MSG_MANUAL_CHECK

\* The entry is one a run at T0 hands to the resolver.
Fetched(e) == e.form = "ok" /\ e.title # {} /\ ~TooOld(e.updated, T0)

Range(s) == {s[i] : i \in 1 .. Len(s)}

\* No call yet in this run.
NoCall ==
    [link |-> 0, ticker |-> "", met |-> [page |-> [fetch |-> "ok", rows |-> <<>>],
                                          docFetch |-> "ok", doc |-> <<>>],
     summary |-> FixedSummary(""), signal |-> "", notified |-> FALSE,
     delivery |-> "none"]

\* Entry l of feed fd is one a run hands to the resolver: it is matched and in
\* the window, and no entry before it ends the run (lines 174-176, 228).
Asked(fd, l) ==
    /\ l <= Len(fd)
    /\ Fetched(fd[l])
    /\ \A j \in 1 .. (l - 1) : fd[j].form = "ok"

MonitorInit ==
    /\ feed \in Feeds
    /\ filings \in [Links -> PipelineFilings]
    /\ \A l \in Links :   \* a filing no run asks for is left at one value,
                          \* and so is the filing of an entry on the window's edge
          (~Asked(feed, l) \/ feed[l].updated # T0) => filings[l] = NoXmlFiling
    /\ \A l \in Links :   \* the filings under a title that names two companies
                          \* hold no transaction
          (Asked(feed, l) /\ Cardinality(feed[l].title) > 1) => filings[l].doc = <<>>
    /\ now_utc = T0
    /\ creds \in BOOLEAN
    /\ telegram \in {"ok", "raises"}
    /\ ~creds => telegram = "ok"     \* nothing is posted
    /\ (\A l \in Links : ~Asked(feed, l)) => creds    \* nothing is sent
    /\ pc = "idle"
    /\ idx = 0
    /\ tpos = 0
    /\ found_count = 0
    /\ runs = 0
    /\ last = NoCall
    /\ resolved = <<>>
    /\ notified = <<>>
    /\ processed = {}
    /\ rerun = FALSE
    /\ fetch = "none"

\* Lines 155-168 and 228-231: where a run goes after its feed request.
\*   "raises":      requests.get raises (timeout, connection failure): exit(1);
\*   "http_error":  status_code != 200: return at line 159;
\*   "unparseable": a 200 whose body ET.fromstring rejects: exit(1);
\*   "ok":          the scan starts.
FeedOutcomeMutRaiseForStatus(r) ==
    IF r \in {"raises", "unparseable", "http_error"} THEN "exit1" ELSE "scan"

FeedOutcome(r) ==
    IF r \in {"raises", "unparseable"} THEN "exit1"
    ELSE IF r = "http_error" THEN "done"
    ELSE "scan"

\* Lines 153-171: the feed request and the start of the scan. Each run is a
\* process of its own, so its locals start afresh; the runs follow one another
\* at once: datetime.now at line 170 reads T0 in each.
StartRun ==
    /\ pc \in {"idle", "done", "exit1"}
    /\ runs < MaxRuns
    /\ runs' = runs + 1
    /\ rerun' = (pc = "done" /\ idx > Len(feed))
    /\ last' = NoCall
    /\ resolved' = <<>>
    /\ notified' = <<>>
    /\ tpos' = 0
    /\ now_utc' = T0
    /\ found_count' = 0
    /\ \E r \in {"ok", "http_error", "raises", "unparseable"} :
          /\ fetch' = r
          /\ pc' = FeedOutcome(r)
          /\ idx' = IF FeedOutcome(r) = "scan" THEN 1 ELSE 0
    /\ UNCHANGED <<feed, filings, creds, telegram, processed, cvars, wvars>>

\* Lines 173-188 for one entry, and line 226 after the last.
ScanEntry ==
    /\ pc = "scan"
    /\ \/ /\ idx > Len(feed)
          /\ pc' = "done"
          /\ processed' = processed \cup Range(resolved)
          /\ UNCHANGED <<idx, tpos>>
       \/ /\ idx <= Len(feed)
          /\ feed[idx].form # "ok"          \* lines 174-176 raise: line 228
          /\ pc' = "exit1"
          /\ UNCHANGED <<idx, tpos, processed>>
       \/ /\ idx <= Len(feed)
          /\ feed[idx].form = "ok"
          /\ TooOld(feed[idx].updated, now_utc)
          /\ idx' = idx + 1
          /\ UNCHANGED <<pc, tpos, processed>>
       \/ /\ idx <= Len(feed)
          /\ feed[idx].form = "ok"
          /\ ~TooOld(feed[idx].updated, now_utc)
          /\ pc' = "match"
          /\ tpos' = 1
          /\ UNCHANGED <<idx, processed>>
    /\ UNCHANGED <<feed, filings, now_utc, creds, telegram, found_count, runs, last,
                   resolved, notified, rerun, fetch, cvars, wvars>>

\* What a call for link l may meet: the filing SEC serves and whether each of
\* the two requests is answered. The document request is made only when the
\* index page gave a link.
Meets(l) ==
    LET rows == filings[l].rows
        Met(pf, df) == [page |-> [fetch |-> pf, rows |-> rows], docFetch |-> df,
                        doc |-> filings[l].doc]
    IN  {Met("raises", "ok")}
        \cup (IF FirstXmlRow(rows, 1) = 0 THEN {Met("ok", "ok")}
              ELSE {Met("ok", df) : df \in {"ok", "raises", "http_error"}})

\* Lines 191-224: the inner loop from position tpos to its next match. An
\* exception leaving send_telegram_msg would reach line 228.
KeywordMatch ==
    /\ pc = "match"
    /\ LET e == feed[idx]
           t == NextMatch(e.title, tpos)
       IN  \/ /\ t = 0
              /\ pc' = "scan"
              /\ idx' = idx + 1
              /\ tpos' = 0
              /\ UNCHANGED <<found_count, last, resolved, notified>>
           \/ /\ t # 0
              /\ \E f \in Meets(e.link) :
                    LET r == get_transaction_details(f)
                        sent == ~Suppressed(r)
                        delivery == IF sent THEN send_telegram_msg(creds, telegram)
                                    ELSE "none"
                    IN  /\ last' = [link |-> e.link, ticker |-> WATCHLIST[t],
                                    met |-> f, summary |-> r.summary,
                                    signal |-> r.signal, notified |-> sent,
                                    delivery |-> delivery]
                        /\ resolved' = Append(resolved, e.link)
                        /\ IF sent /\ delivery = "raised"
                           THEN /\ notified' = Append(notified, e.link)
                                /\ pc' = "exit1"
                                /\ UNCHANGED <<idx, tpos, found_count>>
                           ELSE IF sent
                           THEN /\ notified' = Append(notified, e.link)
                                /\ found_count' = found_count + 1
                                /\ pc' = "scan"
                                /\ idx' = idx + 1
                                /\ tpos' = 0
                           ELSE /\ tpos' = t + 1
                                /\ UNCHANGED <<pc, idx, found_count, notified>>
    /\ UNCHANGED <<feed, filings, now_utc, creds, telegram, runs, processed, rerun,
                   fetch, cvars, wvars>>

\* The variables of the other two specifications, at rest.
ClassifyIdle ==
    /\ cl_in = [page |-> [fetch |-> "ok", rows |-> <<>>], docFetch |-> "ok", doc |-> <<>>]
    /\ cl_out = [summary |-> FixedSummary(""), signal |-> ""]
    /\ cl_xml = ""
    /\ cl_pc = "idle"

WatchdogIdle ==
    /\ w_file = [state |-> "missing", bulk |-> 0, links |-> {}]
    /\ w_history = [bulk |-> 0, links |-> {}]
    /\ w_new = {}
    /\ w_pc = "off"
    /\ w_ticker = 0
    /\ w_runs = 0

MonitorIdle ==
    /\ feed = <<>>
    /\ filings = [l \in Links |-> NoXmlFiling]
    /\ now_utc = T0
    /\ creds = FALSE
    /\ telegram = "ok"
    /\ pc = "off"
    /\ idx = 0
    /\ tpos = 0
    /\ found_count = 0
    /\ runs = 0
    /\ last = NoCall
    /\ resolved = <<>>
    /\ notified = <<>>
    /\ processed = {}
    /\ rerun = FALSE
    /\ fetch = "none"

Init == MonitorInit /\ ClassifyIdle /\ WatchdogIdle

Next == StartRun \/ ScanEntry \/ KeywordMatch

Spec == Init /\ [][Next]_vars

----------------------------------------------------------------------------
(* get_transaction_details applied to one filing.                           *)

\* Records on which reading the code, the shares or the price raises: a
\* transactionCoding without a transactionCode, a transactionShares without a
\* value, a price value that is not a number.
MalformedRecords ==
    {[coding |-> "nochild", code |-> "", sharesNode |-> "value", shares |-> 1000,
      priceNode |-> "value", price |-> 10],
     [coding |-> "text", code |-> "P", sharesNode |-> "novalue", shares |-> 0,
      priceNode |-> "value", price |-> 10],
     [coding |-> "text", code |-> "P", sharesNode |-> "value", shares |-> 1000,
      priceNode |-> "nonnumeric", price |-> 0]}

\* The rows the index pages are drawn from: the table's header row (no <td>),
\* the filing's .htm and .xml documents, an exhibit (another Type) in .xml, and
\* a 3-cell row with an .xml link.
HeaderRow == [cells |-> 0, doctype |-> "", href |-> "", ext |-> ""]
ExhibitXmlRow == [cells |-> 4, doctype |-> "EX-99", href |-> "ex99.xml", ext |-> "xml"]
ShortXmlRow == [cells |-> 3, doctype |-> "4", href |-> "short.xml", ext |-> "xml"]

ResolverRows == {HeaderRow, HtmRow, XmlRow, ExhibitXmlRow, ShortXmlRow}

RECURSIVE PagesOfLen(_)
PagesOfLen(n) ==
    IF n = 0 THEN {<<>>}
    ELSE {Append(pg, r) : pg \in PagesOfLen(n - 1), r \in ResolverRows}

ResolverPages == UNION {PagesOfLen(n) : n \in 0 .. MaxRows}

\* The records the documents are drawn from: codes P, S and A (an award) at
\* two share counts, priced at 0, 10 or 20 or without a price node, a record
\* without a transactionCoding element, and the malformed records.
ClassifyRecords ==
    [coding : {"text"}, code : {"P", "S", "A"}, sharesNode : {"value"},
     shares : {500, 1000}, priceNode : {"value"}, price : {0, 10, 20}]
    \cup [coding : {"text"}, code : {"P", "S", "A"}, sharesNode : {"value"},
          shares : {500, 1000}, priceNode : {"absent"}, price : {0}]
    \cup {[coding |-> "absent", code |-> "", sharesNode |-> "value", shares |-> 1000,
           priceNode |-> "value", price |-> 10]}
    \cup MalformedRecords

RECURSIVE DocsOfLen(_)
DocsOfLen(n) ==
    IF n = 0 THEN {<<>>}
    ELSE {Append(d, t) : d \in DocsOfLen(n - 1), t \in ClassifyRecords}

ClassifyDocs == UNION {DocsOfLen(n) : n \in 0 .. MaxRecords}

ClassifyInputs ==
    {[page |-> [fetch |-> "ok", rows |-> <<HtmRow, XmlRow>>], docFetch |-> "ok",
      doc |-> d] : d \in ClassifyDocs}
    \cup {[page |-> [fetch |-> pf, rows |-> rows], docFetch |-> df, doc |-> <<>>] :
            pf \in {"ok", "raises"}, rows \in ResolverPages,
            df \in {"ok", "raises", "http_error"}}

ClassifyInit ==
    /\ cl_in \in ClassifyInputs
    /\ cl_out = [summary |-> FixedSummary(""), signal |-> ""]
    /\ cl_xml = ""
    /\ cl_pc = "ready"

Classify ==
    /\ cl_pc = "ready"
    /\ cl_xml' = get_xml_link(cl_in.page)
    /\ cl_out' = get_transaction_details(cl_in)
    /\ cl_pc' = "returned"
    /\ UNCHANGED <<cl_in, mvars, wvars>>

InitClassify == ClassifyInit /\ MonitorIdle /\ WatchdogIdle

NextClassify == Classify

SpecClassify == InitClassify /\ [][NextClassify]_vars

----------------------------------------------------------------------------
(* news_watchdog.py: the history file.                                      *)

\* news_watchdog's WATCHLIST.
W_WATCHLIST == <<"HIMS", "ZETA", "ODD", "NVDA", "TSLA", "AMD", "OSCR">>

HISTORY_CAP == 500   \* line 40: [-500:]
RSS_ITEMS == 4       \* line 84: [:4]
YF_ITEMS == 3        \* line 105: [:3]
TARGET_ITEMS == 3    \* line 196: [:3]

\* The history is a set of links (clean URLs). The links the model's runs meet
\* are WLinks; the entries an older file already holds are told apart only by
\* their number, bulk: every one of them is older than any link of WLinks.
WLinks == 1 .. MaxLinks

Size(h) == h.bulk + Cardinality(h.links)

\* Lines 29-36: a missing or unreadable file gives the empty set.
load_history(file) ==
    IF file.state = "ok" THEN [bulk |-> file.bulk, links |-> file.links]
    ELSE [bulk |-> 0, links |-> {}]

\* Lines 38-42: the files save_history may write. list(history_set) has the
\* set's iteration order, which Python leaves to the strings' hashes: the last
\* 500 of it are any 500 of the set.
save_historyMutNoSlice(history_set) ==
    {[state |-> "ok", bulk |-> history_set.bulk, links |-> history_set.links]}

save_history(history_set) ==
    LET n == Size(history_set)
        k == IF n > HISTORY_CAP THEN n - HISTORY_CAP ELSE 0
    IN  {[state |-> "ok",
          bulk |-> history_set.bulk - (k - Cardinality(E)),
          links |-> history_set.links \ E] :
            E \in {X \in SUBSET history_set.links :
                     /\ Cardinality(X) <= k
                     /\ k - Cardinality(X) <= history_set.bulk}}

\* Sequences of distinct links of length at most n.
RECURSIVE NewsOfLen(_)
NewsOfLen(n) ==
    IF n = 0 THEN {<<>>}
    ELSE {Append(s, l) : s \in NewsOfLen(n - 1), l \in WLinks}

Distinct(s) == \A i, j \in 1 .. Len(s) : i # j => s[i] # s[j]

NewsLists(n) == {s \in UNION {NewsOfLen(m) : m \in 0 .. n} : Distinct(s)}

\* Lines 183-187: the items whose clean URL is not in history, in order.
RECURSIVE Fresh(_, _)
Fresh(raw_news, history) ==
    IF raw_news = <<>> THEN <<>>
    ELSE IF Head(raw_news) \in history.links
         THEN Fresh(Tail(raw_news), history)
         ELSE <<Head(raw_news)>> \o Fresh(Tail(raw_news), history)

FirstN(s, n) == SubSeq(s, 1, IF Len(s) < n THEN Len(s) ELSE n)

WatchdogInit ==
    /\ w_file \in {[state |-> "missing", bulk |-> 0, links |-> {}],
                   [state |-> "corrupt", bulk |-> 0, links |-> {}]}
                  \cup {[state |-> "ok", bulk |-> b, links |-> {}] :
                          b \in {HISTORY_CAP - 1, HISTORY_CAP}}
    /\ w_history = [bulk |-> 0, links |-> {}]
    /\ w_new = {}
    /\ w_pc = "idle"
    /\ w_ticker = 0
    /\ w_runs = 0

\* Lines 166-171.
WStart ==
    /\ w_pc \in {"idle", "saved"}
    /\ w_runs < MaxWRuns
    /\ w_runs' = w_runs + 1
    /\ w_history' = load_history(w_file)
    /\ w_new' = {}
    /\ w_ticker' = 1
    /\ w_pc' = "loop"
    /\ UNCHANGED <<w_file, mvars, cvars>>

\* Lines 173-220: one iteration of the loop over the tickers. rss and yf are
\* what the two news sources return (yfinance is asked only when the RSS gave
\* nothing); analysis is call_gemini_batch's answer (asked only when there is
\* fresh news).
WTicker ==
    /\ w_pc = "loop"
    /\ w_ticker <= Len(W_WATCHLIST)
    /\ \E rss \in NewsLists(RSS_ITEMS) :
       \E yf \in (IF rss # <<>> THEN {<<>>} ELSE NewsLists(YF_ITEMS)) :
       \E analysis \in (IF Fresh(IF rss # <<>> THEN rss ELSE yf, w_history) = <<>>
                        THEN {"none"} ELSE {"text", "SKIP_QUOTA", "none"}) :
          LET raw_news == IF rss # <<>> THEN rss ELSE yf
              fresh_news == Fresh(raw_news, w_history)
              target_news == FirstN(fresh_news, TARGET_ITEMS)
          IN  /\ IF fresh_news = <<>> \/ analysis = "none"
                 THEN /\ w_ticker' = w_ticker + 1
                      /\ UNCHANGED <<w_history, w_new>>
                 ELSE IF analysis = "SKIP_QUOTA"
                 THEN /\ w_ticker' = Len(W_WATCHLIST) + 1     \* break
                      /\ UNCHANGED <<w_history, w_new>>
                 ELSE /\ w_history' = [w_history EXCEPT
                                          !.links = @ \cup Range(target_news)]
                      /\ w_new' = w_new \cup Range(target_news)
                      /\ w_ticker' = w_ticker + 1
    /\ UNCHANGED <<w_file, w_pc, w_runs, mvars, cvars>>

\* Line 222.
WSave ==
    /\ w_pc = "loop"
    /\ w_ticker > Len(W_WATCHLIST)
    /\ w_file' \in save_history(w_history)
    /\ w_pc' = "saved"
    /\ UNCHANGED <<w_history, w_new, w_ticker, w_runs, mvars, cvars>>

InitWatchdog == WatchdogInit /\ MonitorIdle /\ ClassifyIdle

NextWatchdog == WStart \/ WTicker \/ WSave

SpecWatchdog == InitWatchdog /\ [][NextWatchdog]_vars

----------------------------------------------------------------------------
(* Properties of check_sec_filings (Spec).                                  *)

\* A run is under way: processed is still the ProcessedSet the run started with.
Running == pc \in {"scan", "match"}

\* C1 (Deduplication): a link that is in the ProcessedSet when a run starts is
\* neither handed to the Filing Resolver nor notified by that run.
C1_Deduplication ==
    Running => /\ \A i \in 1 .. Len(resolved) : resolved[i] \notin processed
               /\ \A i \in 1 .. Len(notified) : notified[i] \notin processed

\* C2 (Idempotence): a run started right after a completed run, against the
\* same feed with every entry still in the window, sends no notification.
C2_Idempotence == rerun => found_count = 0 /\ notified = <<>>

\* The call met a document that was served and parsed, every record of which
\* has a transaction code other than P and S.
OnlyOtherCodes(f) ==
    /\ get_xml_link(f.page) # ""
    /\ f.docFetch = "ok"
    /\ f.doc # <<>>
    /\ \A i \in 1 .. Len(f.doc) :
          /\ ~TransactionCode(f.doc[i]).raised
          /\ TransactionCode(f.doc[i]).code \notin {"", "P", "S"}

\* C3 (Unknown-code neutrality): a matched filing whose records all have a code
\* other than P or S is classified NEUTRAL with a summary other than the
\* manual-check fallback, and is not notified.
C3_UnknownCodeNeutrality ==
    (last.link # 0 /\ OnlyOtherCodes(last.met))
        => /\ last.signal = "NEUTRAL"
           /\ last.summary.text # MSG_MANUAL_CHECK
           /\ ~last.notified
           /\ last.link \notin Range(notified)

NoDuplicates(s) == \A i, j \in 1 .. Len(s) : i # j => s[i] # s[j]

\* C4 (Resolver-miss fallback): when the resolver returns none for a matched,
\* in-window filing, the signal is UNKNOWN with the check-manually message, and
\* the filing is handed to the notifier exactly once in the run.
C4_ResolverMissFallback ==
    /\ (last.link # 0 /\ get_xml_link(last.met.page) = "")
          => /\ last.signal = "UNKNOWN"
             /\ last.summary = FixedSummary(MSG_XML_NOT_FOUND)
             /\ last.notified
             /\ notified # <<>>
             /\ notified[Len(notified)] = last.link
             /\ found_count = Len(notified)
    /\ NoDuplicates(notified)

\* C4's case: an index page that was fetched and has no transaction-document
\* row, and one that could not be fetched, each notified.
C4_Witness ==
    /\ last.link # 0
    /\ last.met.page.fetch = "ok"
    /\ get_xml_link(last.met.page) = ""
    /\ last.notified
    /\ last.link \in Range(notified)

\* C7 (Lookback boundary): an entry goes on to entity matching iff
\* now - updatedAt <= lookback: the entry updated exactly lookback ago is
\* matched and resolved, the one a second older is dropped with no resolver
\* call and no notification.
InWindow(e) == now_utc - e.updated <= LookbackSeconds

C7_LookbackBoundary ==
    /\ \A i \in 1 .. Len(resolved) : InWindow(feed[resolved[i]])
    /\ \A i \in 1 .. Len(notified) : InWindow(feed[notified[i]])
    /\ pc = "match" => InWindow(feed[idx])
    /\ \A j \in 1 .. Len(feed) :
          (j < idx /\ feed[j].form = "ok" /\ feed[j].title # {} /\ InWindow(feed[j]))
             => j \in Range(resolved)

\* C7's case: the scan has passed an entry one second too old and an entry
\* exactly on the edge; only the latter was resolved.
C7_Witness ==
    \E j, k \in 1 .. Len(feed) :
        /\ j < idx /\ k < idx
        /\ feed[j].form = "ok" /\ feed[j].title # {} /\ feed[j].updated = Old
        /\ feed[k].form = "ok" /\ feed[k].updated = Edge
        /\ j \notin Range(resolved)
        /\ k \in Range(resolved)

\* C10 (Malformed feed entry): an entry missing title, link or updated is
\* skipped; the run does not end at it, and goes on to the entries after it.
C10_MalformedEntrySkipped ==
    /\ ~(pc = "exit1" /\ idx >= 1 /\ idx <= Len(feed) /\ feed[idx].form # "ok")
    /\ (pc \in {"done", "exit1"} /\ idx >= 1) =>
          \A j \in 1 .. Len(feed) :
              (feed[j].form = "ok" /\ feed[j].title # {} /\ InWindow(feed[j]))
                 => j \in Range(resolved)

C13_DocumentFetchFailureIsError ==
    (/\ last.link # 0
     /\ get_xml_link(last.met.page) # ""
     /\ last.met.docFetch \in {"raises", "http_error"})
        => /\ last.signal = "ERROR"
           /\ last.summary.lines = <<>>
           /\ last.notified
           /\ last.link \in Range(notified)

\* Sending fails: TG_TOKEN or TG_CHAT_ID is not set, or requests.post raises.
SendFails == ~creds \/ telegram = "raises"

\* Whatever the two requests meet, the filing of link l is not resolved, so its
\* signal is UNKNOWN and it is sent.
AlwaysSent(l) == FirstXmlRow(filings[l].rows, 1) = 0

StrictlyIncreasing(s) == \A i, j \in 1 .. Len(s) : i < j => s[i] < s[j]

\* C15 (Notifier failure is never fatal): when sending fails, the run never
\* ends at a send, nothing is sent twice, every send is counted, and every
\* in-window matched entry the scan has passed was resolved and, when its
\* result is one that is sent, handed to the notifier, in feed order.
C15_NotifierFailureNotFatal ==
    SendFails =>
        /\ pc = "exit1" => (idx = 0 \/ (idx <= Len(feed) /\ feed[idx].form # "ok"))
        /\ last.notified => last.delivery \in {"no_credentials", "post_failed"}
        /\ found_count = Len(notified)
        /\ StrictlyIncreasing(notified)
        /\ \A j \in 1 .. Len(feed) :
              (j < idx /\ feed[j].form = "ok" /\ feed[j].title # {} /\ InWindow(feed[j]))
                 => /\ j \in Range(resolved)
                    /\ AlwaysSent(j) => j \in Range(notified)

\* C15's case: requests.post raised for the first entry's message, and the
\* second entry was resolved and handed to the notifier after it.
C15_Witness ==
    /\ creds /\ telegram = "raises"
    /\ pc = "done"
    /\ notified = <<1, 2>>
    /\ resolved = <<1, 2>>
    /\ found_count = 2
    /\ last.delivery = "post_failed"

\* C16 (At most one resolver call and one notification per entry): within a
\* run no link is handed to get_transaction_details twice, nor to
\* send_telegram_msg twice.
C16_OncePerEntry == NoDuplicates(resolved) /\ NoDuplicates(notified)

----------------------------------------------------------------------------
(* Properties of get_transaction_details (SpecClassify).                    *)

\* The document was served and parsed.
Parsed(f) == get_xml_link(f.page) # "" /\ f.docFetch = "ok"

\* The sum of shares * pricePerShare over the records of one side (code) that
\* carry a non-zero price.
RECURSIVE SideValue(_, _)
SideValue(doc, side) ==
    IF doc = <<>> THEN 0
    ELSE LET t == Head(doc)
             counts == /\ t.coding = "text" /\ t.code = side
                       /\ t.sharesNode = "value"
                       /\ t.priceNode = "value" /\ t.price # 0
         IN  (IF counts THEN t.shares * t.price ELSE 0) + SideValue(Tail(doc), side)

ExampleDoc == <<Rec("P", 1000, 10), Rec("S", 500, 20)>>

\* C5 (Signal derivation): for a parsed document the signal is MIXED iff both
\* totals are positive, BUY iff only the buy total is, SELL iff only the sell
\* total is, NEUTRAL iff neither is; the totals are the per-side sums, which
\* the summary's lines carry; 1000 @ 10 bought and 500 @ 20 sold give
\* 10000 / 10000 and MIXED.
C5_SignalDerivation ==
    (cl_pc = "returned" /\ Parsed(cl_in)) =>
        LET buy == SideValue(cl_in.doc, "P")
            sell == SideValue(cl_in.doc, "S")
            lines == cl_out.summary.lines
        IN  /\ cl_out.signal = "MIXED" <=> (buy > 0 /\ sell > 0)
            /\ cl_out.signal = "BUY" <=> (buy > 0 /\ sell = 0)
            /\ cl_out.signal = "SELL" <=> (buy = 0 /\ sell > 0)
            /\ cl_out.signal = "NEUTRAL" <=> (buy = 0 /\ sell = 0)
            /\ \A i \in 1 .. Len(lines) :
                  lines[i].value = IF lines[i].side = "BUY" THEN buy ELSE sell
            /\ Len(lines) = (IF buy > 0 THEN 1 ELSE 0) + (IF sell > 0 THEN 1 ELSE 0)
            /\ cl_in.doc = ExampleDoc =>
                  /\ buy = 10000 /\ sell = 10000
                  /\ cl_out.signal = "MIXED"

C5_Witness ==
    /\ cl_pc = "returned"
    /\ Parsed(cl_in)
    /\ cl_in.doc = ExampleDoc
    /\ cl_out.signal = "MIXED"
    /\ Len(cl_out.summary.lines) = 2

\* The record carries a price of 0 or no price.
ZeroPriced(t) == t.priceNode = "absent" \/ (t.priceNode = "value" /\ t.price = 0)

\* doc without its i-th record.
Without(doc, i) == SubSeq(doc, 1, i - 1) \o SubSeq(doc, i + 1, Len(doc))

\* C6 (Zero-price exclusion): a record priced 0 or without a price leaves the
\* four totals unchanged, and the filing's result is the result of the same
\* document with that record removed.
C6_ZeroPriceExclusion ==
    (cl_pc = "returned" /\ Parsed(cl_in)) =>
        \A i \in 1 .. Len(cl_in.doc) :
            ZeroPriced(cl_in.doc[i]) =>
                /\ \A acc \in {ZeroTotals, Totals(ZeroTotals, cl_in.doc, 1)} :
                      Accumulate(acc, cl_in.doc[i]) = acc
                /\ Totals(ZeroTotals, cl_in.doc, 1)
                      = Totals(ZeroTotals, Without(cl_in.doc, i), 1)
                /\ cl_out = get_transaction_details(
                               [cl_in EXCEPT !.doc = Without(cl_in.doc, i)])

\* The href of the first document-table row (a row of more than 3 cells) of
\* Type 4 whose document is an .xml file, "" when there is none.
RECURSIVE FirstForm4Xml(_)
FirstForm4Xml(rows) ==
    IF rows = <<>> THEN ""
    ELSE LET r == Head(rows)
         IN  IF r.cells > 3 /\ r.doctype = "4" /\ r.ext = "xml" /\ r.href # ""
             THEN r.href
             ELSE FirstForm4Xml(Tail(rows))

\* C12 (Resolver predicate): for an index page that was fetched, the resolver
\* returns the link of the first row whose Type is the form code 4 and whose
\* document is an .xml file, never an .xml row of another Type, and none when
\* no row is both.
C12_ResolverPredicate ==
    (cl_pc = "returned" /\ cl_in.page.fetch = "ok")
        => cl_xml = FirstForm4Xml(cl_in.page.rows)

\* Reading the record's code, shares or price raises, or there is no code.
Malformed(t) ==
    \/ t.coding \in {"absent", "nochild"}
    \/ t.sharesNode = "novalue"
    \/ t.priceNode = "nonnumeric"

WellFormed(t) == ~Malformed(t)

\* C14 (Per-record failure isolation): a malformed record changes none of the
\* four totals, whatever they hold when it is read; the totals, the signal and
\* the summary's lines are those of the document without its malformed
\* records, and the signal is not ERROR.
C14_PerRecordIsolation ==
    (cl_pc = "returned" /\ Parsed(cl_in)) =>
        LET doc == cl_in.doc
            clean == SelectSeq(doc, WellFormed)
            r == get_transaction_details([cl_in EXCEPT !.doc = clean])
        IN  /\ \A i \in 1 .. Len(doc) :
                  Malformed(doc[i]) =>
                      LET before == Totals(ZeroTotals, SubSeq(doc, 1, i - 1), 1)
                      IN  Accumulate(before, doc[i]) = before
            /\ Totals(ZeroTotals, doc, 1) = Totals(ZeroTotals, clean, 1)
            /\ cl_out.signal = r.signal
            /\ cl_out.summary.lines = r.summary.lines
            /\ cl_out.signal # "ERROR"

\* C14's case: a purchase after a record whose price is not a number.
C14_Witness ==
    /\ cl_pc = "returned"
    /\ Parsed(cl_in)
    /\ Len(cl_in.doc) = 2
    /\ cl_in.doc[1].priceNode = "nonnumeric"
    /\ cl_in.doc[2] = Rec("P", 1000, 10)
    /\ cl_out.signal = "BUY"
    /\ cl_out.summary.lines = <<[side |-> "BUY", shares |-> 1000, value |-> 10000]>>

----------------------------------------------------------------------------
(* Properties of the news watchdog's history file (SpecWatchdog).           *)

\* C8 (History bound, size): after any save the file holds at most
\* HISTORY_CAP entries, whatever the size of the set in memory.
C8_HistoryBoundSize ==
    /\ w_pc = "saved" => Size(w_file) <= HISTORY_CAP
    /\ w_file.state = "ok" => Size(w_file) <= HISTORY_CAP

\* C8's case: a save of a set larger than the cap.
C8_Witness ==
    /\ w_pc = "saved"
    /\ Size(w_history) > HISTORY_CAP
    /\ Size(w_file) = HISTORY_CAP

\* C9 (History bound, eviction order): the entries a save evicts are the
\* oldest: no entry added in the current run is evicted while an entry added
\* in an earlier run is kept.
C9_EvictionOrder ==
    w_pc = "saved" =>
        ~ /\ \E l \in w_new : l \notin w_file.links
          /\ \/ w_file.bulk > 0
             \/ \E o \in w_file.links : o \notin w_new

====
